---- MODULE Spec2Model ----
(***************************************************************************)
(* GetHash v0.20 (gh.c): sparse FNV-1a fingerprint of media files.         *)
(*                                                                         *)
(* A 64-bit unsigned value is a tuple of four 16-bit limbs, least          *)
(* significant limb first, so that every product stays below 2^31.         *)
(* A path and a file name are tuples of one-character strings, because     *)
(* the program inspects them character by character.                       *)
(***************************************************************************)
EXTENDS Integers, Sequences, FiniteSets, TLC

(* ------------------------------ bounds -------------------------------- *)

\* window counts k for which files of k*CHUNK_SIZE-2 .. k*CHUNK_SIZE+1 bytes exist
MaxChunks == 4
\* longest list of command-line arguments enumerated for the directory tree
MaxArgs == 2
\* longest byte string handed to fnv1a_hash on its own
MaxLen == 3

(* ----------------------------- constants ------------------------------ *)

CHUNK_SIZE == 16384
LIMB == 2 ^ 16
\* 0xcbf29ce484222325
FNV_OFFSET_BASIS == << 8997, 33826, 40164, 52210 >>
\* 0x00000100000001b3
FNV_PRIME == << 435, 0, 256, 0 >>

(* ------------------------- 64-bit arithmetic -------------------------- *)

Min(a, b) == IF a < b THEN a ELSE b
Max(a, b) == IF a < b THEN b ELSE a

Bit(a, i) == (a \div (2 ^ i)) % 2

\* a ^ b on 4-bit values, tabulated
XorNib ==
  [a \in 0..15, b \in 0..15 |->
      (IF Bit(a, 0) # Bit(b, 0) THEN 1 ELSE 0)
    + (IF Bit(a, 1) # Bit(b, 1) THEN 2 ELSE 0)
    + (IF Bit(a, 2) # Bit(b, 2) THEN 4 ELSE 0)
    + (IF Bit(a, 3) # Bit(b, 3) THEN 8 ELSE 0)]

Xor8(a, b) == 16 * XorNib[a \div 16, b \div 16] + XorNib[a % 16, b % 16]

\* hash ^= data[i]: the byte is widened to 64 bits, only the low 8 bits change
XorByte(x, b) == [x EXCEPT ![1] = (x[1] \div 256) * 256 + Xor8(x[1] % 256, b)]

\* unsigned long long product, wrapping modulo 2^64 (limbs of b are below 2^15)
Mul64(a, b) ==
  LET t0 == a[1] * b[1]
      t1 == a[1] * b[2] + a[2] * b[1] + (t0 \div LIMB)
      t2 == a[1] * b[3] + a[2] * b[2] + a[3] * b[1] + (t1 \div LIMB)
      t3 == a[1] * b[4] + a[2] * b[3] + a[3] * b[2] + a[4] * b[1] + (t2 \div LIMB)
  IN  << t0 % LIMB, t1 % LIMB, t2 % LIMB, t3 % LIMB >>

\* (unsigned long long) of a non-negative off_t below 2^31
ToU64(n) == << n % LIMB, n \div LIMB, 0, 0 >>

\* (unsigned char*)&file_size: the 8 bytes of the object, least significant first
SizeBytes(x) ==
  [k \in 1..8 |-> LET l == x[((k - 1) \div 2) + 1]
                  IN  IF k % 2 = 1 THEN l % 256 ELSE l \div 256]

(* ------------------------------- Mixer -------------------------------- *)

\* FNV-1 instead of FNV-1a: multiply first, then XOR
FnvStepMultiplyFirst(hash, byte) == XorByte(Mul64(hash, FNV_PRIME), byte)

\* one iteration of the loop body; x names the value of hash after the XOR
FnvStep(hash, byte) ==
  CHOOSE r \in { Mul64(x, FNV_PRIME) : x \in { XorByte(h, byte) : h \in { hash } } } : TRUE

\* iterations lo+1 .. hi of the loop, in index order; l names the value of hash after
\* the first half
RECURSIVE FnvRange(_, _, _, _)
FnvRange(hash, data, lo, hi) ==
  IF hi <= lo THEN hash
  ELSE IF hi = lo + 1 THEN FnvStep(hash, data[hi])
  ELSE LET mid  == (lo + hi) \div 2
           left == FnvRange(hash, data, lo, mid)
       IN  CHOOSE r \in { FnvRange(l, data, mid, hi) : l \in { left } } : TRUE

fnv1a_hash(hash, data, len) == FnvRange(hash, data, 0, len)

ZERO == << 0, 0, 0, 0 >>

(* --------------------------- ExtensionFilter --------------------------- *)

UpperCase == << "A", "B", "C", "D", "E", "F", "G", "H", "I", "J", "K", "L", "M",
                "N", "O", "P", "Q", "R", "S", "T", "U", "V", "W", "X", "Y", "Z" >>
LowerCase == << "a", "b", "c", "d", "e", "f", "g", "h", "i", "j", "k", "l", "m",
                "n", "o", "p", "q", "r", "s", "t", "u", "v", "w", "x", "y", "z" >>

\* the comparison of v0.02: the characters are compared as they are
tolowerNone(c) == c

tolower(c) ==
  IF \E k \in 1..26 : UpperCase[k] = c
  THEN LowerCase[CHOOSE k \in 1..26 : UpperCase[k] = c]
  ELSE c

extensions ==
  << << ".", "m", "p", "4" >>, << ".", "m", "k", "v" >>, << ".", "a", "v", "i" >>,
     << ".", "m", "o", "v" >>, << ".", "w", "m", "v" >>, << ".", "f", "l", "v" >>,
     << ".", "w", "e", "b", "m" >>, << ".", "m", "4", "v" >>, << ".", "m", "p", "g" >>,
     << ".", "m", "p", "e", "g" >>, << ".", "t", "s" >>, << ".", "m", "2", "t", "s" >> >>

\* strrchr(filename, '.'): index of the last '.', 0 when there is none
strrchr_dot(filename) ==
  IF \E k \in 1..Len(filename) : filename[k] = "."
  THEN CHOOSE k \in 1..Len(filename) :
         filename[k] = "." /\ \A j \in (k + 1)..Len(filename) : filename[j] # "."
  ELSE 0

is_video_file(filename) ==
  LET dot == strrchr_dot(filename)
  IN  IF dot = 0 THEN FALSE
      ELSE LET n        == Min(15, Len(filename) - dot + 1)
               ext_copy == [k \in 1..n |-> tolower(filename[dot + k - 1])]
           IN  \E i \in 1..Len(extensions) : ext_copy = extensions[i]

(* ----------------------------- filesystem ------------------------------ *)

Range(f) == { f[x] : x \in DOMAIN f }

Digit == << "0", "1", "2", "3", "4", "5", "6", "7", "8", "9" >>

\* decimal digits of n, as characters
RECURSIVE Dec(_)
Dec(n) == IF n < 10 THEN << Digit[n + 1] >> ELSE Dec(n \div 10) \o << Digit[(n % 10) + 1] >>

Slash == << "/" >>
Mp4   == << ".", "m", "p", "4" >>

\* a regular file: byte p is data[p+1] where data reaches, else fill + step*p (mod 256),
\* except byte mpos, which is mval
RegNode(size, fill, step, mpos, mval, perm, statok) ==
  [kind |-> "reg", size |-> size, fill |-> fill, step |-> step, mpos |-> mpos,
   mval |-> mval, perm |-> perm, statok |-> statok, entries |-> << >>, target |-> << >>,
   data |-> << >>]

\* a regular file given byte by byte
DataNode(data) ==
  [kind |-> "reg", size |-> Len(data), fill |-> 0, step |-> 0, mpos |-> -1, mval |-> 0,
   perm |-> TRUE, statok |-> TRUE, entries |-> << >>, target |-> << >>, data |-> data]

DirNode(entries, perm) ==
  [kind |-> "dir", size |-> 4096, fill |-> 0, step |-> 0, mpos |-> -1, mval |-> 0,
   perm |-> perm, statok |-> TRUE, entries |-> entries, target |-> << >>, data |-> << >>]

LnkNode(target) ==
  [kind |-> "lnk", size |-> Len(target), fill |-> 0, step |-> 0, mpos |-> -1, mval |-> 0,
   perm |-> TRUE, statok |-> TRUE, entries |-> << >>, target |-> target, data |-> << >>]

Dot    == << "." >>
DotDot == << ".", "." >>

nR    == << "r" >>
nA    == << "a", ".", "m", "p", "4" >>
nB    == << "b", ".", "t", "x", "t" >>
nSub  == << "s", "u", "b" >>
nC    == << "c", ".", "M", "K", "V" >>
nX    == << "x", ".", "m", "p", "4" >>
nE    == << "e", ".", "a", "v", "i" >>
nLnk  == << "l", "n", "k" >>
nGone == << "g", "o", "n", "e", ".", "m", "p", "4" >>
nLib  == << "L" >>

pR    == nR
pA    == pR \o Slash \o nA
pB    == pR \o Slash \o nB
pSub  == pR \o Slash \o nSub
pC    == pSub \o Slash \o nC
pX    == pSub \o Slash \o nX
pE    == pSub \o Slash \o nE
pLnk  == pR \o Slash \o nLnk
pS    == pR \o Slash \o << "s", ".", "m", "p", "4" >>
pGone == nGone
pT    == << "t" >>
pF    == pT \o Slash \o << "f", ".", "m", "p", "4" >>
pG    == pT \o Slash \o << "g", ".", "t", "x", "t" >>
pU    == pT \o Slash \o << "u" >>
pK    == pU \o Slash \o << "v" >> \o Slash \o << "k", ".", "t", "s" >>
pD    == pT \o Slash \o << "d" >>
pQ    == pD \o Slash \o << "q", ".", "m", "p", "4" >>
pZ    == pU \o Slash \o << "z", ".", "m", "p", "4" >>
pM    == << "m" >>

\* root arguments written with a trailing slash, and through a link
pLnkSlash == pLnk \o Slash

\* 18 bytes whose fingerprint, size fold included, is 0
ZeroBytes == << 68, 32, 3, 4, 13, 13, 61, 2, 1, 6, 27, 6, 60, 27, 9, 0, 3, 0 >>

\* r/{a.mp4, b.txt, sub/{c.MKV, x.mp4 (no read permission), e.avi (fstat fails)},
\*    lnk -> r, s.mp4 -> r/a.mp4}; gone.mp4 does not exist;
\* t/{f.mp4, d/{q.mp4} (d cannot be opened), n (listed by readdir, gone by the time of
\*    lstat), g.txt, u/{h.mkv, z.mp4, v/{k.ts}}, w/{}}, a tree without symbolic links;
\* m/{a.mp4, b.txt, sub/{c.mkv}}
TreeFS ==
  (pM :> DirNode(<< Dot, DotDot, nA, nB, nSub >>, TRUE)) @@
  (pM \o Slash \o nA :> RegNode(7, 110, 1, -1, 0, TRUE, TRUE)) @@
  (pM \o Slash \o nB :> RegNode(8, 120, 1, -1, 0, TRUE, TRUE)) @@
  (pM \o Slash \o nSub :> DirNode(<< Dot, DotDot, << "c", ".", "m", "k", "v" >> >>, TRUE)) @@
  (pM \o Slash \o nSub \o Slash \o << "c", ".", "m", "k", "v" >>
        :> RegNode(9, 130, 1, -1, 0, TRUE, TRUE)) @@
  (pR   :> DirNode(<< Dot, DotDot, nA, nB, nSub, nLnk, << "s", ".", "m", "p", "4" >> >>,
                   TRUE)) @@
  (pA   :> RegNode(3, 10, 1, -1, 0, TRUE, TRUE)) @@
  (pB   :> RegNode(5, 20, 1, -1, 0, TRUE, TRUE)) @@
  (pSub :> DirNode(<< Dot, DotDot, nC, nX, nE >>, TRUE)) @@
  (pC   :> RegNode(2, 30, 1, -1, 0, TRUE, TRUE)) @@
  (pX   :> RegNode(4, 40, 1, -1, 0, FALSE, TRUE)) @@
  (pE   :> RegNode(6, 50, 1, -1, 0, TRUE, FALSE)) @@
  (pLnk :> LnkNode(pR)) @@
  (pS   :> LnkNode(pA)) @@
  (pT   :> DirNode(<< Dot, DotDot, << "f", ".", "m", "p", "4" >>, << "d" >>, << "n" >>,
                      << "g", ".", "t", "x", "t" >>, << "u" >>, << "w" >> >>,
                   TRUE)) @@
  (pF   :> RegNode(1, 60, 1, -1, 0, TRUE, TRUE)) @@
  (pG   :> RegNode(2, 70, 1, -1, 0, TRUE, TRUE)) @@
  (pU   :> DirNode(<< Dot, DotDot, << "h", ".", "m", "k", "v" >>,
                      << "z", ".", "m", "p", "4" >>, << "v" >> >>, TRUE)) @@
  (pU \o Slash \o << "h", ".", "m", "k", "v" >> :> RegNode(3, 80, 1, -1, 0, TRUE, TRUE)) @@
  (pZ   :> DataNode(ZeroBytes)) @@
  (pU \o Slash \o << "v" >> :> DirNode(<< Dot, DotDot, << "k", ".", "t", "s" >> >>, TRUE)) @@
  (pK   :> RegNode(4, 90, 1, -1, 0, TRUE, TRUE)) @@
  (pT \o Slash \o << "w" >> :> DirNode(<< Dot, DotDot >>, TRUE)) @@
  (pD   :> DirNode(<< Dot, DotDot, << "q", ".", "m", "p", "4" >> >>, FALSE)) @@
  (pQ   :> RegNode(5, 100, 1, -1, 0, TRUE, TRUE))

\* the library L/: files of k*CHUNK_SIZE and k*CHUNK_SIZE+1 bytes, k up to
\* MaxChunks, and a few sizes in between
LibSizes ==
  << 0, 1, 20000, 40000, 4 * CHUNK_SIZE - 2, 4 * CHUNK_SIZE - 1 >> \o
  [i \in 1..(2 * MaxChunks) |-> (((i - 1) \div 2) + 1) * CHUNK_SIZE + ((i - 1) % 2)]

\* sizes whose files are constant-filled and come with two one-byte variations
Special(size) == size = 40000 \/ size % CHUNK_SIZE = 1

LibName(v, size) == << v >> \o Dec(size) \o Mp4
LibPath(v, size) == nLib \o Slash \o LibName(v, size)

\* b: a ramp; a: every byte 65; c, d: as a with one byte changed, right after the
\* first CHUNK_SIZE bytes (c) or right before the last CHUNK_SIZE bytes (d)
LibOf(size) ==
  IF ~Special(size)
  THEN << [path |-> LibPath("b", size), node |-> RegNode(size, 7, 3, -1, 0, TRUE, TRUE)] >>
  ELSE << [path |-> LibPath("a", size), node |-> RegNode(size, 65, 0, -1, 0, TRUE, TRUE)] >> \o
       (IF size > CHUNK_SIZE
        THEN << [path |-> LibPath("c", size),
                 node |-> RegNode(size, 65, 0, CHUNK_SIZE, 200, TRUE, TRUE)],
                [path |-> LibPath("d", size),
                 node |-> RegNode(size, 65, 0, size - CHUNK_SIZE - 1, 201, TRUE, TRUE)] >>
        ELSE << >>)

RECURSIVE LibFrom(_)
LibFrom(i) == IF i > Len(LibSizes) THEN << >> ELSE LibOf(LibSizes[i]) \o LibFrom(i + 1)

LibFiles == LibFrom(1)

LibFS ==
  [p \in { LibFiles[k].path : k \in 1..Len(LibFiles) } |->
     (CHOOSE k \in 1..Len(LibFiles) : LibFiles[k].path = p) ] 

FSNode(path) ==
  IF path \in DOMAIN TreeFS THEN TreeFS[path]
  ELSE IF path = nLib
       THEN DirNode([k \in 1..Len(LibFiles) |-> SubSeq(LibFiles[k].path, 3, Len(LibFiles[k].path))], TRUE)
       ELSE LibFiles[LibFS[path]].node

Exists(path) == path \in DOMAIN TreeFS \/ path = nLib \/ path \in DOMAIN LibFS

\* byte p of a regular file's content
Content(node, p) ==
  IF p < Len(node.data) THEN node.data[p + 1]
  ELSE IF p = node.mpos THEN node.mval ELSE (node.fill + node.step * p) % 256

\* the names between the slashes of a path; empty names are dropped
RECURSIVE Components(_, _, _)
Components(path, k, name) ==
  LET done == IF name = << >> THEN << >> ELSE << name >>
  IN  IF k > Len(path) THEN done
      ELSE IF path[k] = "/" THEN done \o Components(path, k + 1, << >>)
           ELSE Components(path, k + 1, Append(name, path[k]))

TrailingSlash(path) == Len(path) > 0 /\ path[Len(path)] = "/"

\* the kernel's path walk from directory dir (<< >>: the working directory) over the
\* names left: a symbolic link is followed in every component but the last, and in the
\* last one when follow is set; << >> when the walk fails
RECURSIVE Namei(_, _, _, _)
Namei(dir, names, follow, hops) ==
  IF names = << >> THEN dir
  ELSE LET here == IF dir = << >> THEN Head(names) ELSE dir \o Slash \o Head(names)
           last == Len(names) = 1
       IN  IF hops = 0 \/ ~Exists(here) THEN << >>
           ELSE IF FSNode(here).kind = "lnk" /\ (~last \/ follow)
                THEN LET to == Namei(<< >>, Components(FSNode(here).target, 1, << >>),
                                     TRUE, hops - 1)
                     IN  IF to = << >> \/ (~last /\ FSNode(to).kind # "dir") THEN << >>
                         ELSE Namei(to, Tail(names), follow, hops)
                ELSE IF ~last /\ FSNode(here).kind # "dir" THEN << >>
                     ELSE Namei(here, Tail(names), follow, hops)

\* the file a path names, << >> when there is none; a trailing slash makes the last
\* component a directory that is looked into, so a link there is followed (names: the
\* components of the path, to: where the walk over them ends)
Lookup(path, follow, hops) ==
  IF Exists(path) /\ FSNode(path).kind # "lnk" THEN path
  ELSE CHOOSE r \in { IF to # << >> /\ TrailingSlash(path) /\ FSNode(to).kind # "dir"
                       THEN << >> ELSE to :
                       to \in { Namei(<< >>, names, follow \/ TrailingSlash(path), hops) :
                                names \in { Components(path, 1, << >>) } } } : TRUE

\* stat for lstat: the last component is followed too
LstatFollow(path) == Lookup(path, TRUE, 8)

\* lstat(2): the last component is not followed
Lstat(path) == Lookup(path, FALSE, 8)

\* the path a name resolves to when symbolic links are followed; << >> when it does not
Resolve(path, hops) == Lookup(path, TRUE, hops)

\* no pre-flight resolution: every path is taken to resolve
realpathAlways(path) == TRUE

\* realpath(3): NULL (FALSE here) when the path does not resolve
realpath(path) == Resolve(path, 8) # << >>

(* ------------------------------- state --------------------------------- *)

VARIABLES
  argv,              \* argv[1..argc-1]
  pc,                \* position in main / process_path_recursive
  argi,              \* main's second-pass index i
  ignore_extension, recursive_mode,
  files_total, files_succeeded, total_size_bytes, files_processed,
  stack,             \* open directories of the nested process_path_recursive calls
  wpath,             \* path argument of the innermost process_path_recursive call
  cpc,               \* position in calculate_video_hash
  filename,          \* its argument
  fd, fpos,          \* the descriptor it holds (<< >>: none) and its file offset
  file_size, hash, buffer, bytesRead,
  sz,                \* the caller's variable behind out_size
  ret,               \* the value calculate_video_hash returned
  io,                \* size folds, reads and window folds of the call so far
  sampled,           \* the calls of calculate_video_hash that returned
  out,               \* what the run has reported, in order
  disk,              \* current length of every regular file
  fds,               \* the descriptors open() returned that are not closed yet
  isvid              \* the value is_video_file returned

vars == << argv, pc, argi, ignore_extension, recursive_mode, files_total,
           files_succeeded, total_size_bytes, files_processed, stack, wpath, cpc,
           filename, fd, fpos, file_size, hash, buffer, bytesRead, sz, ret, io,
           sampled, out, disk, fds, isvid >>

mainVars == << argv, pc, argi, ignore_extension, recursive_mode, files_total,
               files_succeeded, total_size_bytes, files_processed, stack, wpath,
               out >>

optI == << "-", "i" >>
optR == << "-", "r" >>

AllPaths == DOMAIN TreeFS \cup DOMAIN LibFS \cup { nLib }
RegPaths == { p \in AllPaths : FSNode(p).kind = "reg" }

\* every list of at most n tokens
RECURSIVE SeqsUpTo(_, _)
SeqsUpTo(S, n) ==
  IF n = 0 THEN { << >> }
  ELSE LET shorter == SeqsUpTo(S, n - 1)
       IN  shorter \cup { Append(q, x) : q \in { r \in shorter : Len(r) = n - 1 }, x \in S }

TreeTokens == { optI, optR, pR, pA, pB, pX, pE, pGone }

LibPaths == [k \in 1..Len(LibFiles) |-> LibFiles[k].path]
IsPlain(path) == path[3] = "b"

\* the constant-filled file of one size and its variations, on one command line
LibSameSize(size) ==
  SelectSeq(LibPaths, LAMBDA p : \E v \in { "a", "c", "d" } : p = LibPath(v, size))

\* the constant-filled files that are at most one chunk long (w = 1), at most three
\* (w = 2), or longer (w = 3), on one command line
LibConstant(w) ==
  SelectSeq(LibPaths,
            LAMBDA p : \E k \in 1..Len(LibSizes) :
                          /\ p = LibPath("a", LibSizes[k])
                          /\ (w = 1) = (LibSizes[k] <= CHUNK_SIZE)
                          /\ (w = 3) = (LibSizes[k] > 3 * CHUNK_SIZE))

\* walks of the two trees, of a link to a directory named with and without a trailing
\* slash, and flat runs over a link to a file and over the file whose fingerprint is 0
WalkArgLists ==
  { << optR, pM >>, << optR, optI, pM >>, << optR, pT >>, << optR, optI, pT >>, << optI, optR, pR >>, << optR, pT, pR >>,
    << optR, optI, pSub, pT >>, << optR, pLnk >>, << optR, optI, pLnkSlash >>,
    << optR, pLnk \o Slash \o nSub >>, << optR, pSub, pR >>,
    << optR, optI, pS >>, << optR, pGone, pT >>, << optR, optI, pD, pU >>,
    << pS, pZ, pA >>, << optI, pT, pZ, pGone, pF >>, << pX, pF, pE, pK >> }

\* command lines over the tree, and one naming a file of four windows' length
TreeArgLists ==
  SeqsUpTo(TreeTokens, MaxArgs) \cup WalkArgLists \cup { << LibPath("b", 4 * CHUNK_SIZE) >> }

\* command lines over the library: every ramp file alone, two of them named twice,
\* the other files by size and by length; and three command lines over the tree
SampleArgLists ==
  { << p >> : p \in { q \in Range(LibPaths) : IsPlain(q) } } \cup
  { << LibPath("b", 0), LibPath("b", 0) >>, << LibPath("b", 20000), LibPath("b", 20000) >> } \cup
  { LibSameSize(LibSizes[k]) : k \in { i \in 1..Len(LibSizes) : Special(LibSizes[i]) } } \cup
  { LibConstant(w) : w \in 1..3 } \cup
  { << >>, << optR, pR >>, << pB, pGone >> }

InitWith(lists) ==
  /\ argv \in lists
  /\ pc = "parse"
  /\ argi = 1
  /\ ignore_extension = FALSE
  /\ recursive_mode = FALSE
  /\ files_total = 0
  /\ files_succeeded = 0
  /\ total_size_bytes = 0
  /\ files_processed = 0
  /\ stack = << >>
  /\ wpath = << >>
  /\ cpc = "idle"
  /\ filename = << >>
  /\ fd = << >>
  /\ fpos = 0
  /\ file_size = 0
  /\ hash = ZERO
  /\ buffer = << >>
  /\ bytesRead = 0
  /\ sz = 0
  /\ ret = ZERO
  /\ io = << >>
  /\ sampled = << >>
  /\ out = << >>
  /\ disk = [p \in RegPaths |-> FSNode(p).size]
  /\ fds = << >>
  /\ isvid = FALSE

Init == InitWith(TreeArgLists)

InitSample == InitWith(SampleArgLists)

(* ---------------------------- SparseSampler ---------------------------- *)

IoEvent(op, off, n) == [op |-> op, off |-> off, n |-> n]

Call(path, h, size, ok) == [path |-> path, ret |-> h, size |-> size, ok |-> ok, io |-> io]

\* st.st_size of an open descriptor
StSize(path) == IF FSNode(path).kind = "reg" THEN disk[path] ELSE FSNode(path).size

\* read(fd, buffer, file_size): the rest of the file in one read
ReadCountWhole(path, pos) ==
  IF FSNode(path).kind # "reg" THEN -1
  ELSE Max(0, disk[path] - pos)

\* what read(fd, buffer, CHUNK_SIZE) returns at offset pos: -1 (EISDIR) on a directory
ReadCount(path, pos) ==
  IF FSNode(path).kind # "reg" THEN -1
  ELSE Min(CHUNK_SIZE, Max(0, disk[path] - pos))

\* the buffer after that read: the first n cells are overwritten
ReadInto(buf, path, pos, n) ==
  [k \in 1..Max(n, Len(buf)) |->
     IF k <= n THEN Content(FSNode(path), pos + k - 1) ELSE buf[k]]

\* the size fold left out for an empty file
SeedHashSkipEmpty(size) ==
  IF size = 0 THEN FNV_OFFSET_BASIS
  ELSE fnv1a_hash(FNV_OFFSET_BASIS, SizeBytes(ToU64(size)), 8)

\* the size not folded at all
SeedHashNoSize(size) == FNV_OFFSET_BASIS

\* a static accumulator: the fold goes on from the value the previous call returned
SeedHashCarried(size) ==
  fnv1a_hash(IF sampled = << >> THEN FNV_OFFSET_BASIS ELSE sampled[Len(sampled)].ret,
             SizeBytes(ToU64(size)), 8)

\* lines 307-311: the accumulator after the size fold
SeedHash(size) == fnv1a_hash(FNV_OFFSET_BASIS, SizeBytes(ToU64(size)), 8)

\* >= for >, and a mid window from two chunks on
NeedMidInclusive(size)  == size >= CHUNK_SIZE * 3
NeedMidEarly(size)      == size > CHUNK_SIZE * 2
NeedTailInclusive(size) == size >= CHUNK_SIZE

\* line 316 and line 322
NeedMid(size)  == size > CHUNK_SIZE * 3
NeedTail(size) == size > CHUNK_SIZE

\* the midpoint rounded up, and a third for a half
MidOffsetRoundUp(size) == (size + 1) \div 2
MidOffsetThird(size)   == size \div 3

\* lseek(fd, (off_t)(file_size / 2), SEEK_SET)
MidOffset(size) == size \div 2

\* the tail window starting one byte early
TailOffsetEarly(len, pos) ==
  IF len - CHUNK_SIZE - 1 >= 0 THEN len - CHUNK_SIZE - 1 ELSE pos

\* lseek(fd, file_size - CHUNK_SIZE, SEEK_SET): the seek made from the recorded size
TailOffsetRecorded(len, pos) == file_size - CHUNK_SIZE

\* lseek(fd, -(off_t)CHUNK_SIZE, SEEK_END): EINVAL leaves the offset where it was
TailOffset(len, pos) == IF len - CHUNK_SIZE >= 0 THEN len - CHUNK_SIZE ELSE pos

\* if (bytesRead > 0) hash = fnv1a_hash(hash, buffer, (size_t)bytesRead);
FoldWindow(h, buf, n) == IF n > 0 THEN fnv1a_hash(h, buf, n) ELSE h

AfterHead(size) == IF NeedMid(size) THEN "read_mid" ELSE IF NeedTail(size) THEN "read_tail" ELSE "close"
AfterMid(size)  == IF NeedTail(size) THEN "read_tail" ELSE "close"

\* close(fd) that leaves the descriptor open
closeLeak(tbl, d) == tbl

\* close(fd): the descriptor leaves the table of open descriptors
close(tbl, d) ==
  IF \E k \in 1..Len(tbl) : tbl[k] = d
  THEN LET k == CHOOSE i \in 1..Len(tbl) : tbl[i] = d
       IN  SubSeq(tbl, 1, k - 1) \o SubSeq(tbl, k + 1, Len(tbl))
  ELSE tbl

cvh_open_ok ==
  /\ cpc = "open"
  /\ Resolve(filename, 8) # << >>
  /\ FSNode(Resolve(filename, 8)).perm
  /\ fd' = Resolve(filename, 8)
  /\ fds' = Append(fds, Resolve(filename, 8))
  /\ fpos' = 0
  /\ cpc' = "fstat"
  /\ UNCHANGED << mainVars, filename, file_size, hash, buffer, bytesRead, sz, ret, io,
                  sampled, disk, isvid >>

cvh_open_fail ==
  /\ cpc = "open"
  /\ (Resolve(filename, 8) = << >> \/ ~FSNode(Resolve(filename, 8)).perm)
  /\ ret' = ZERO
  /\ cpc' = "ret"
  /\ sampled' = Append(sampled, Call(filename, ZERO, -1, FALSE))
  /\ UNCHANGED << mainVars, filename, fd, fpos, file_size, hash, buffer, bytesRead, sz,
                  io, disk, fds, isvid >>

cvh_fstat_ok ==
  /\ cpc = "fstat"
  /\ FSNode(fd).statok
  /\ file_size' = StSize(fd)
  /\ sz' = StSize(fd)
  /\ cpc' = "seed"
  /\ UNCHANGED << mainVars, filename, fd, fpos, hash, buffer, bytesRead, ret, io,
                  sampled, disk, fds, isvid >>

cvh_fstat_fail ==
  /\ cpc = "fstat"
  /\ ~FSNode(fd).statok
  /\ fds' = close(fds, fd)
  /\ fd' = << >>
  /\ ret' = ZERO
  /\ cpc' = "ret"
  /\ sampled' = Append(sampled, Call(filename, ZERO, -1, FALSE))
  /\ UNCHANGED << mainVars, filename, fpos, file_size, hash, buffer, bytesRead, sz, io,
                  disk, isvid >>

cvh_seed ==
  /\ cpc = "seed"
  /\ hash' = SeedHash(file_size)
  /\ io' = Append(io, IoEvent("fold_size", 0, 8))
  /\ cpc' = "read_head"
  /\ UNCHANGED << mainVars, filename, fd, fpos, file_size, buffer, bytesRead, sz, ret,
                  sampled, disk, fds, isvid >>

\* bytesRead = read(fd, buffer, CHUNK_SIZE) at offset pos
DoRead(pos, next) ==
  LET n == ReadCount(fd, pos)
  IN  /\ bytesRead' = n
      /\ buffer' = IF n > 0 THEN ReadInto(buffer, fd, pos, n) ELSE buffer
      /\ fpos' = IF n > 0 THEN pos + n ELSE pos
      /\ io' = Append(io, IoEvent("read", pos, n))
      /\ cpc' = next
      /\ UNCHANGED << mainVars, filename, fd, file_size, hash, sz, ret, sampled, disk,
                      fds, isvid >>

DoFold(next) ==
  /\ hash' = FoldWindow(hash, buffer, bytesRead)
  /\ io' = IF bytesRead > 0 THEN Append(io, IoEvent("fold", 0, bytesRead)) ELSE io
  /\ cpc' = next
  /\ UNCHANGED << mainVars, filename, fd, fpos, file_size, buffer, bytesRead, sz, ret,
                  sampled, disk, fds, isvid >>

cvh_read_head == cpc = "read_head" /\ DoRead(fpos, "fold_head")
cvh_fold_head == cpc = "fold_head" /\ DoFold(AfterHead(file_size))
cvh_read_mid  == cpc = "read_mid"  /\ DoRead(MidOffset(file_size), "fold_mid")
cvh_fold_mid  == cpc = "fold_mid"  /\ DoFold(AfterMid(file_size))
cvh_read_tail == cpc = "read_tail" /\ DoRead(TailOffset(StSize(fd), fpos), "fold_tail")
cvh_fold_tail == cpc = "fold_tail" /\ DoFold("close")

cvh_close ==
  /\ cpc = "close"
  /\ fds' = close(fds, fd)
  /\ fd' = << >>
  /\ ret' = hash
  /\ cpc' = "ret"
  /\ sampled' = Append(sampled, Call(filename, hash, file_size, TRUE))
  /\ buffer' = << >>
  /\ UNCHANGED << mainVars, filename, fpos, file_size, hash, bytesRead, sz, io, disk,
                  isvid >>

calculate_video_hash ==
  \/ cvh_open_ok
  \/ cvh_open_fail
  \/ cvh_fstat_ok
  \/ cvh_fstat_fail
  \/ cvh_seed
  \/ cvh_read_head
  \/ cvh_fold_head
  \/ cvh_read_mid
  \/ cvh_fold_mid
  \/ cvh_read_tail
  \/ cvh_fold_tail
  \/ cvh_close

\* the call itself: fresh locals, the caller's size variable zeroed
CallSampler(path) ==
  /\ cpc' = "open"
  /\ filename' = path
  /\ fd' = << >>
  /\ fpos' = 0
  /\ file_size' = 0
  /\ hash' = ZERO
  /\ buffer' = << >>
  /\ bytesRead' = 0
  /\ sz' = 0
  /\ ret' = ZERO
  /\ io' = << >>

samplerVars == << cpc, filename, fd, fpos, file_size, hash, buffer, bytesRead, sz, ret, io >>

(* ------------------------ main: argument parsing ----------------------- *)

IsOption(arg) == Len(arg) > 0 /\ arg[1] = "-"

\* a first pass that counts only the arguments the extension filter lets through
CountFilesAccepted(args) ==
  Cardinality({ k \in 1..Len(args) :
                  /\ ~IsOption(args[k])
                  /\ ((\E j \in 1..Len(args) : args[j] = optI) \/ is_video_file(args[k])) })

\* first pass: files_total counts every argument that does not start with '-'
CountFiles(args) == Cardinality({ k \in 1..Len(args) : ~IsOption(args[k]) })
HasArg(args, opt) == \E k \in 1..Len(args) : args[k] = opt

OutEvent(kind, path, h, size) == [kind |-> kind, path |-> path, hash |-> h, size |-> size]

main_usage ==
  /\ pc = "parse"
  /\ (Len(argv) = 0 \/ (CountFiles(argv) = 0 /\ ~HasArg(argv, optR)))
  /\ pc' = "usage"
  /\ UNCHANGED << argv, argi, ignore_extension, recursive_mode, files_total,
                  files_succeeded, total_size_bytes, files_processed, stack, wpath, out,
                  samplerVars, sampled, disk, fds, isvid >>

main_parse ==
  /\ pc = "parse"
  /\ ~(Len(argv) = 0 \/ (CountFiles(argv) = 0 /\ ~HasArg(argv, optR)))
  /\ ignore_extension' = HasArg(argv, optI)
  /\ recursive_mode' = HasArg(argv, optR)
  /\ files_total' = CountFiles(argv)
  /\ argi' = 1
  /\ pc' = "loop"
  /\ UNCHANGED << argv, files_succeeded, total_size_bytes, files_processed, stack, wpath,
                  out, samplerVars, sampled, disk, fds, isvid >>

(* ------------------------ main: the second pass ------------------------ *)

main_skip_option ==
  /\ pc = "loop"
  /\ argi <= Len(argv)
  /\ IsOption(argv[argi])
  /\ argi' = argi + 1
  /\ UNCHANGED << argv, pc, ignore_extension, recursive_mode, files_total,
                  files_succeeded, total_size_bytes, files_processed, stack, wpath, out,
                  samplerVars, sampled, disk, fds, isvid >>

main_summary ==
  /\ pc = "loop"
  /\ argi > Len(argv)
  /\ pc' = "done"
  /\ out' = Append(out, OutEvent("summary", << >>, ZERO, 0))
  /\ UNCHANGED << argv, argi, ignore_extension, recursive_mode, files_total,
                  files_succeeded, total_size_bytes, files_processed, stack, wpath,
                  samplerVars, sampled, disk, fds, isvid >>

\* the loop left where it should go on
ContinueBreak(i) == Len(argv) + 1

\* continue: on to the loop's i++
Continue(i) == i + 1

FlatArg == pc = "loop" /\ argi <= Len(argv) /\ ~IsOption(argv[argi]) /\ ~recursive_mode

flat_skip ==
  /\ FlatArg
  /\ ~ignore_extension /\ ~is_video_file(argv[argi])
  /\ files_processed' = files_processed + 1
  /\ out' = Append(out, OutEvent("skipping", argv[argi], ZERO, 0))
  /\ argi' = Continue(argi)
  /\ UNCHANGED << argv, pc, ignore_extension, recursive_mode, files_total,
                  files_succeeded, total_size_bytes, stack, wpath, samplerVars, sampled,
                  disk, fds, isvid >>

flat_path_error ==
  /\ FlatArg
  /\ ~(~ignore_extension /\ ~is_video_file(argv[argi]))
  /\ ~realpath(argv[argi])
  /\ files_processed' = files_processed + 1
  /\ out' = Append(out, OutEvent("path_error", argv[argi], ZERO, 0))
  /\ argi' = Continue(argi)
  /\ UNCHANGED << argv, pc, ignore_extension, recursive_mode, files_total,
                  files_succeeded, total_size_bytes, stack, wpath, samplerVars, sampled,
                  disk, fds, isvid >>

flat_call ==
  /\ FlatArg
  /\ ~(~ignore_extension /\ ~is_video_file(argv[argi]))
  /\ realpath(argv[argi])
  /\ files_processed' = files_processed + 1
  /\ CallSampler(argv[argi])
  /\ pc' = "flat_wait"
  /\ UNCHANGED << argv, argi, ignore_extension, recursive_mode, files_total,
                  files_succeeded, total_size_bytes, stack, wpath, out, sampled, disk,
                  fds, isvid >>

\* = for +=
AddBytesAssign(total, h, size) == IF h # << 0, 0, 0, 0 >> THEN size ELSE total

\* lines 424-444: if (h != 0) { files_succeeded++; total_size_bytes += file_size; ... }
Succeeded(h) == h # ZERO
\* files_succeeded++ outside the if
AddSucceededAlways(n, h) == n + 1

AddSucceeded(n, h) == IF Succeeded(h) THEN n + 1 ELSE n
AddBytes(total, h, size) == IF Succeeded(h) THEN total + size ELSE total
Report(log, h, path, size) ==
  IF Succeeded(h) THEN Append(log, OutEvent("hash", path, h, size)) ELSE log

flat_record ==
  /\ pc = "flat_wait"
  /\ cpc = "ret"
  /\ files_succeeded' = AddSucceeded(files_succeeded, ret)
  /\ total_size_bytes' = AddBytes(total_size_bytes, ret, sz)
  /\ out' = Report(out, ret, filename, sz)
  /\ argi' = argi + 1
  /\ pc' = "loop"
  /\ cpc' = "idle"
  /\ UNCHANGED << argv, ignore_extension, recursive_mode, files_total, files_processed,
                  stack, wpath, filename, fd, fpos, file_size, hash, buffer, bytesRead,
                  sz, ret, io, sampled, disk, fds, isvid >>

(* ------------------------ process_path_recursive ----------------------- *)

Frame(path, entries) == [path |-> path, entries |-> entries]

\* only the directory given as root counts as one
IsDirShallow(path) ==
  Lstat(path) # << >> /\ FSNode(Lstat(path)).kind = "dir" /\ stack = << >>

\* S_ISDIR(st.st_mode) and S_ISREG(st.st_mode) after a successful lstat
IsDir(path) == Lstat(path) # << >> /\ FSNode(Lstat(path)).kind = "dir"
IsReg(path) == Lstat(path) # << >> /\ FSNode(Lstat(path)).kind = "reg"

RecArg == pc = "loop" /\ argi <= Len(argv) /\ ~IsOption(argv[argi]) /\ recursive_mode

main_walk ==
  /\ RecArg
  /\ wpath' = argv[argi]
  /\ pc' = "walk"
  /\ UNCHANGED << argv, argi, ignore_extension, recursive_mode, files_total,
                  files_succeeded, total_size_bytes, files_processed, stack, out,
                  samplerVars, sampled, disk, fds, isvid >>

\* where a finished process_path_recursive call returns to
Return(stk) ==
  /\ wpath' = << >>
  /\ IF stk = << >>
     THEN pc' = "loop" /\ argi' = argi + 1
     ELSE pc' = "walk_loop" /\ argi' = argi

\* a failed lstat or opendir ends the whole walk
walk_skipAbort ==
  /\ pc = "walk"
  /\ \/ Lstat(wpath) = << >>
     \/ IsDir(wpath) /\ ~FSNode(Lstat(wpath)).perm
     \/ Lstat(wpath) # << >> /\ ~IsDir(wpath) /\ ~IsReg(wpath)
  /\ wpath' = << >> /\ pc' = "loop" /\ argi' = Len(argv) + 1 /\ stack' = << >>
  /\ UNCHANGED << argv, ignore_extension, recursive_mode, files_total, files_succeeded,
                  total_size_bytes, files_processed, out, samplerVars, sampled,
                  disk, fds, isvid >>

\* lstat fails, opendir fails, or the entry is neither a directory nor a regular file
walk_skip ==
  /\ pc = "walk"
  /\ \/ Lstat(wpath) = << >>
     \/ IsDir(wpath) /\ ~FSNode(Lstat(wpath)).perm
     \/ Lstat(wpath) # << >> /\ ~IsDir(wpath) /\ ~IsReg(wpath)
  /\ Return(stack)
  /\ UNCHANGED << argv, ignore_extension, recursive_mode, files_total, files_succeeded,
                  total_size_bytes, files_processed, stack, out, samplerVars, sampled,
                  disk, fds, isvid >>

walk_opendir ==
  /\ pc = "walk"
  /\ IsDir(wpath) /\ FSNode(Lstat(wpath)).perm
  /\ stack' = Append(stack, Frame(wpath, FSNode(Lstat(wpath)).entries))
  /\ wpath' = << >>
  /\ pc' = "walk_loop"
  /\ UNCHANGED << argv, argi, ignore_extension, recursive_mode, files_total,
                  files_succeeded, total_size_bytes, files_processed, out, samplerVars,
                  sampled, disk, fds, isvid >>

Top == stack[Len(stack)]
Pop == SubSeq(stack, 1, Len(stack) - 1)

walk_dot ==
  /\ pc = "walk_loop"
  /\ Top.entries # << >>
  /\ Head(Top.entries) \in { Dot, DotDot }
  /\ stack' = Append(Pop, Frame(Top.path, Tail(Top.entries)))
  /\ UNCHANGED << argv, pc, argi, ignore_extension, recursive_mode, files_total,
                  files_succeeded, total_size_bytes, files_processed, wpath, out,
                  samplerVars, sampled, disk, fds, isvid >>

walk_entry ==
  /\ pc = "walk_loop"
  /\ Top.entries # << >>
  /\ Head(Top.entries) \notin { Dot, DotDot }
  /\ stack' = Append(Pop, Frame(Top.path, Tail(Top.entries)))
  /\ wpath' = Top.path \o Slash \o Head(Top.entries)
  /\ pc' = "walk"
  /\ UNCHANGED << argv, argi, ignore_extension, recursive_mode, files_total,
                  files_succeeded, total_size_bytes, files_processed, out, samplerVars,
                  sampled, disk, fds, isvid >>

walk_closedir ==
  /\ pc = "walk_loop"
  /\ Top.entries = << >>
  /\ stack' = Pop
  /\ Return(Pop)
  /\ UNCHANGED << argv, ignore_extension, recursive_mode, files_total, files_succeeded,
                  total_size_bytes, files_processed, out, samplerVars, sampled, disk,
                  fds, isvid >>

Accepted(path) == ignore_extension \/ is_video_file(path)

walk_reject ==
  /\ pc = "walk"
  /\ IsReg(wpath)
  /\ ~Accepted(wpath)
  /\ Return(stack)
  /\ UNCHANGED << argv, ignore_extension, recursive_mode, files_total, files_succeeded,
                  total_size_bytes, files_processed, stack, out, samplerVars, sampled,
                  disk, fds, isvid >>

walk_call ==
  /\ pc = "walk"
  /\ IsReg(wpath)
  /\ Accepted(wpath)
  /\ CallSampler(wpath)
  /\ pc' = "rec_wait"
  /\ UNCHANGED << argv, argi, ignore_extension, recursive_mode, files_total,
                  files_succeeded, total_size_bytes, files_processed, stack, wpath, out,
                  sampled, disk, fds, isvid >>

\* lines 232-237
walk_record ==
  /\ pc = "rec_wait"
  /\ cpc = "ret"
  /\ files_total' = files_total + 1
  /\ files_succeeded' = AddSucceeded(files_succeeded, ret)
  /\ total_size_bytes' = AddBytes(total_size_bytes, ret, sz)
  /\ out' = Report(out, ret, filename, sz)
  /\ cpc' = "idle"
  /\ Return(stack)
  /\ UNCHANGED << argv, ignore_extension, recursive_mode, files_processed, stack,
                  filename, fd, fpos, file_size, hash, buffer, bytesRead, sz, ret, io,
                  sampled, disk, fds, isvid >>

Next ==
  \/ main_usage
  \/ main_parse
  \/ main_skip_option
  \/ main_summary
  \/ flat_skip
  \/ flat_path_error
  \/ flat_call
  \/ flat_record
  \/ main_walk
  \/ walk_skip
  \/ walk_opendir
  \/ walk_dot
  \/ walk_entry
  \/ walk_closedir
  \/ walk_reject
  \/ walk_call
  \/ walk_record
  \/ calculate_video_hash

Spec == Init /\ [][Next]_vars

SpecSample == InitSample /\ [][Next]_vars

\* the program is sequential and every step of it returns: some step is always taken
\* until main returns
SpecLive == Init /\ [][Next]_vars /\ WF_vars(Next)

(* -------------------- fnv1a_hash as a pure function -------------------- *)

ONES == << LIMB - 1, LIMB - 1, LIMB - 1, LIMB - 1 >>

FoldBytes  == { 0, 1, 128, 255 }
FoldStates == { ZERO, FNV_OFFSET_BASIS, ONES }

InitFold ==
  /\ pc = "fnv1a_hash"
  /\ hash \in FoldStates
  /\ buffer \in SeqsUpTo(FoldBytes, MaxLen)
  /\ bytesRead = Len(buffer)
  /\ argv = << >>
  /\ argi = 1
  /\ ignore_extension = FALSE
  /\ recursive_mode = FALSE
  /\ files_total = 0
  /\ files_succeeded = 0
  /\ total_size_bytes = 0
  /\ files_processed = 0
  /\ stack = << >>
  /\ wpath = << >>
  /\ cpc = "idle"
  /\ filename = << >>
  /\ fd = << >>
  /\ fpos = 0
  /\ file_size = 0
  /\ sz = 0
  /\ ret = ZERO
  /\ io = << >>
  /\ sampled = << >>
  /\ out = << >>
  /\ disk = [p \in RegPaths |-> FSNode(p).size]
  /\ fds = << >>
  /\ isvid = FALSE

fnv1a_return ==
  /\ pc = "fnv1a_hash"
  /\ ret' = fnv1a_hash(hash, buffer, bytesRead)
  /\ pc' = "fnv1a_done"
  /\ UNCHANGED << argv, argi, ignore_extension, recursive_mode, files_total,
                  files_succeeded, total_size_bytes, files_processed, stack, wpath, cpc,
                  filename, fd, fpos, file_size, hash, buffer, bytesRead, sz, io,
                  sampled, out, disk, fds, isvid >>

SpecFold == InitFold /\ [][fnv1a_return]_vars

(* ------------------- is_video_file as a pure function ------------------ *)

toupper(c) ==
  IF \E k \in 1..26 : LowerCase[k] = c
  THEN UpperCase[CHOOSE k \in 1..26 : LowerCase[k] = c]
  ELSE c

\* an extension as written in the table, in capitals, and with a capital first letter
Cased(ext) ==
  { ext, [k \in 1..Len(ext) |-> toupper(ext[k])],
    [k \in 1..Len(ext) |-> IF k = 2 THEN toupper(ext[k]) ELSE ext[k]] }

\* what may follow the stem of a name: the extensions in three spellings, each without
\* its dot, cut short by one character, and followed by one more character; other text
NameEnds ==
  UNION { Cased(extensions[i])
            \cup { Tail(extensions[i]), SubSeq(extensions[i], 1, Len(extensions[i]) - 1),
                   extensions[i] \o << "x" >>, extensions[i] \o Dot,
                   extensions[i] \o Slash, extensions[i] \o extensions[i] } :
          i \in 1..Len(extensions) }
    \cup { << >>, Dot, << ".", "t", "x", "t" >>,
           << ".", "a", "b", "c", "d", "e", "f", "g", "h", "i", "j", "k", "l", "m", "p", "4" >> }

\* the names is_video_file is applied to: a directory part, a stem and an end, and the
\* short strings over a few characters
FilterNames ==
  LET dirs  == { << >>, << "d", "/" >>, << "d", ".", "m", "p", "4", "/" >>, << ".", "/" >>,
                 << ".", ".", "/", "a", ".", "b", "/" >> }
      stems == { << >>, << "v" >>, << "v", ".", "m", "k", "v" >> }
  IN  { d \o n \o e : d \in dirs, n \in stems, e \in NameEnds }
        \cup SeqsUpTo({ ".", "/", "t", "s", "S" }, MaxLen)

InitFilter ==
  /\ pc = "is_video_file"
  /\ filename \in FilterNames
  /\ isvid = FALSE
  /\ hash = ZERO
  /\ buffer = << >>
  /\ bytesRead = 0
  /\ argv = << >>
  /\ argi = 1
  /\ ignore_extension = FALSE
  /\ recursive_mode = FALSE
  /\ files_total = 0
  /\ files_succeeded = 0
  /\ total_size_bytes = 0
  /\ files_processed = 0
  /\ stack = << >>
  /\ wpath = << >>
  /\ cpc = "idle"
  /\ fd = << >>
  /\ fpos = 0
  /\ file_size = 0
  /\ sz = 0
  /\ ret = ZERO
  /\ io = << >>
  /\ sampled = << >>
  /\ out = << >>
  /\ disk = [p \in RegPaths |-> FSNode(p).size]
  /\ fds = << >>

is_video_return ==
  /\ pc = "is_video_file"
  /\ isvid' = is_video_file(filename)
  /\ pc' = "is_video_done"
  /\ UNCHANGED << argv, argi, ignore_extension, recursive_mode, files_total,
                  files_succeeded, total_size_bytes, files_processed, stack, wpath, cpc,
                  filename, fd, fpos, file_size, hash, buffer, bytesRead, sz, ret, io,
                  sampled, out, disk, fds >>

SpecFilter == InitFilter /\ [][is_video_return]_vars

(* ======================= properties of the sampler ===================== *)

Last(q) == q[Len(q)]

\* a call that opened and measured a regular file
SampledFile(e) == e.ok /\ FSNode(Resolve(e.path, 8)).kind = "reg"
NodeOf(e) == FSNode(Resolve(e.path, 8))

ReadsOf(e) == SelectSeq(e.io, LAMBDA ev : ev.op = "read")
OpsOf(e)   == [k \in 1..Len(e.io) |-> e.io[k].op]

\* bytes off .. off+n-1 of a file
Window(node, off, n) == [k \in 1..n |-> Content(node, off + k - 1)]

\* the same accumulator forced before it is folded further
FoldNext(h, node, off, n) == IF h[1] >= 0 THEN fnv1a_hash(h, Window(node, off, n), n) ELSE h

\* C1: a readable file whose recorded size exceeds 3*CHUNK_SIZE is folded, from the
\* offset basis, as: the 8 bytes of the size, a head window read at offset 0, a mid
\* window read at size/2, a tail window read at size-CHUNK_SIZE; three reads, none
\* longer than CHUNK_SIZE.
C1_ThreeWindowsInOrder ==
  (cpc = "ret" /\ sampled # << >>) =>
    LET e == Last(sampled)
    IN  (SampledFile(e) /\ e.size > 3 * CHUNK_SIZE) =>
          /\ OpsOf(e) = << "fold_size", "read", "fold", "read", "fold", "read", "fold" >>
          /\ e.io[2].off = 0
          /\ e.io[4].off = e.size \div 2
          /\ e.io[6].off = e.size - CHUNK_SIZE
          /\ \A k \in { 2, 4, 6 } : e.io[k].n <= CHUNK_SIZE /\ e.io[k + 1].n = e.io[k].n
          /\ e.ret =
               FoldNext(
                 FoldNext(
                   FoldNext(
                     fnv1a_hash(FNV_OFFSET_BASIS, SizeBytes(ToU64(e.size)), 8),
                     NodeOf(e), 0, e.io[2].n),
                   NodeOf(e), e.size \div 2, e.io[4].n),
                 NodeOf(e), e.size - CHUNK_SIZE, e.io[6].n)

C1_Witness ==
  /\ cpc = "ret" /\ sampled # << >>
  /\ SampledFile(Last(sampled))
  /\ Last(sampled).size = 3 * CHUNK_SIZE + 1
  /\ Len(ReadsOf(Last(sampled))) = 3

\* C2: a readable file with CHUNK_SIZE < size <= 3*CHUNK_SIZE gets two reads, the head
\* over bytes [0, CHUNK_SIZE) and the tail over [size-CHUNK_SIZE, size), and no mid
\* read; for 20000 bytes the tail starts at 3616.
C2_TwoWindows ==
  \A k \in 1..Len(sampled) :
    LET e == sampled[k]
    IN  (SampledFile(e) /\ e.size > CHUNK_SIZE /\ e.size <= 3 * CHUNK_SIZE) =>
          /\ e.io = << IoEvent("fold_size", 0, 8),
                       IoEvent("read", 0, CHUNK_SIZE),
                       IoEvent("fold", 0, CHUNK_SIZE),
                       IoEvent("read", e.size - CHUNK_SIZE, CHUNK_SIZE),
                       IoEvent("fold", 0, CHUNK_SIZE) >>
          /\ (e.size = 20000 => ReadsOf(e)[2].off = 3616)

\* a finished call on a file of exactly 3*CHUNK_SIZE bytes, with its two reads
C2_Witness ==
  /\ sampled # << >>
  /\ SampledFile(Last(sampled))
  /\ Last(sampled).size = 3 * CHUNK_SIZE
  /\ Len(ReadsOf(Last(sampled))) = 2

\* C3: a readable file with size <= CHUNK_SIZE gets one read, the head, which holds
\* the file's first size bytes; nothing is read or folded for a mid or a tail.
C3_OneWindow ==
  /\ \A k \in 1..Len(sampled) :
       LET e == sampled[k]
       IN  (SampledFile(e) /\ e.size <= CHUNK_SIZE) =>
             e.io = << IoEvent("fold_size", 0, 8), IoEvent("read", 0, e.size) >> \o
                    (IF e.size > 0 THEN << IoEvent("fold", 0, e.size) >> ELSE << >>)
  /\ (cpc = "fold_head" /\ FSNode(fd).kind = "reg" /\ file_size <= CHUNK_SIZE) =>
       /\ bytesRead = file_size
       /\ \A k \in 1..bytesRead : buffer[k] = Content(FSNode(fd), k - 1)

C3_Witness ==
  \E k \in 1..Len(sampled) : SampledFile(sampled[k]) /\ sampled[k].size = CHUNK_SIZE

\* 0xa8c7f832281a39c5: FNV-1a of eight zero bytes
ZeroFileHash == << 14789, 10266, 63538, 43207 >>

\* C4 as stated: for a zero-byte readable file only the size is folded and no head,
\* mid or tail read is made; the call succeeds with size 0 and the hash of eight
\* zero bytes.
C4_NoReadAtAll ==
  \A k \in 1..Len(sampled) :
    LET e == sampled[k]
    IN  (SampledFile(e) /\ e.size = 0) =>
          /\ e.io = << IoEvent("fold_size", 0, 8) >>
          /\ e.ret = ZeroFileHash
          /\ Succeeded(e.ret)

\* C4 amended: for a zero-byte readable file the size is folded and the head read is
\* made at offset 0 and returns 0 bytes, so nothing else is folded; there is no mid
\* and no tail read; the call succeeds with size 0 and the hash of eight zero bytes.
C4_EmptyHeadRead ==
  \A k \in 1..Len(sampled) :
    LET e == sampled[k]
    IN  (SampledFile(e) /\ e.size = 0) =>
          /\ e.io = << IoEvent("fold_size", 0, 8), IoEvent("read", 0, 0) >>
          /\ e.ret = ZeroFileHash
          /\ Succeeded(e.ret)

C4_Witness ==
  \E k \in 1..Len(sampled) : SampledFile(sampled[k]) /\ sampled[k].size = 0

(* ------------- the mixer, restated on eight 8-bit digits --------------- *)

\* the eight bytes of a 64-bit value, least significant first
Bytes8(x) == [k \in 1..8 |-> (x[(k + 1) \div 2] \div (IF k % 2 = 1 THEN 1 ELSE 256)) % 256]

\* a XOR b, bit by bit
BitXor(a, b) ==
  LET d(i) == ((Bit(a, i) + Bit(b, i)) % 2) * (2 ^ i)
  IN  d(0) + d(1) + d(2) + d(3) + d(4) + d(5) + d(6) + d(7)

\* 0x100000001b3 as bytes: 2^40 + 2^8 + 0xb3
PrimeBytes == << 179, 1, 0, 0, 0, 1, 0, 0 >>

\* column k of the long multiplication x * PrimeBytes, carry of column k-1 included
RECURSIVE Column(_, _)
Column(x, k) ==
  LET products == [i \in 1..k |-> x[i] * PrimeBytes[k + 1 - i]]
      sum == products[1]
             + (IF k >= 2 THEN products[2] ELSE 0) + (IF k >= 3 THEN products[3] ELSE 0)
             + (IF k >= 4 THEN products[4] ELSE 0) + (IF k >= 5 THEN products[5] ELSE 0)
             + (IF k >= 6 THEN products[6] ELSE 0) + (IF k >= 7 THEN products[7] ELSE 0)
             + (IF k >= 8 THEN products[8] ELSE 0)
  IN  sum + (IF k = 1 THEN 0 ELSE Column(x, k - 1) \div 256)

\* XOR the byte into the low-order 8 bits, then multiply modulo 2^64
XorThenMultiply(x, byte) ==
  LET y == [x EXCEPT ![1] = BitXor(x[1], byte)]
  IN  [k \in 1..8 |-> Column(y, k) % 256]

\* the bytes of data folded one after the other, first to last
RECURSIVE InSequence(_, _)
InSequence(x, data) ==
  IF data = << >> THEN x ELSE InSequence(XorThenMultiply(x, Head(data)), Tail(data))

\* C5: fnv1a_hash takes the bytes in sequence order and, for each, XORs it into the
\* low-order 8 bits of the 64-bit accumulator and then multiplies the accumulator by
\* 0x100000001b3 modulo 2^64; an empty sequence returns the accumulator unchanged.
C5_XorThenMultiplyInOrder ==
  pc = "fnv1a_done" =>
    /\ Bytes8(ret) = InSequence(Bytes8(hash), SubSeq(buffer, 1, bytesRead))
    /\ (bytesRead = 0 => ret = hash)

C5_Witness ==
  /\ pc = "fnv1a_done"
  /\ hash = ONES
  /\ buffer = << 255, 1, 128 >>
  /\ ret # hash

(* --------------------- windows as the design states them --------------- *)

\* the byte ranges [lo, hi) sampled for a file of a given size
HeadRange(size) == [lo |-> 0, hi |-> Min(size, CHUNK_SIZE)]
MidRange(size)  == [lo |-> size \div 2, hi |-> (size \div 2) + CHUNK_SIZE]
TailRange(size) == [lo |-> size - CHUNK_SIZE, hi |-> size]

RangesFor(size) ==
  { HeadRange(size) } \cup
  (IF size > 3 * CHUNK_SIZE THEN { MidRange(size) } ELSE { }) \cup
  (IF size > CHUNK_SIZE THEN { TailRange(size) } ELSE { })

InRanges(size, p) == \E r \in RangesFor(size) : r.lo <= p /\ p < r.hi

\* the range of bytes a read took
ReadRange(ev) == [lo |-> ev.off, hi |-> ev.off + ev.n]
Disjoint(r1, r2) == r1.hi <= r2.lo \/ r2.hi <= r1.lo

ThreeReads(e) ==
  /\ SampledFile(e) /\ e.size > 3 * CHUNK_SIZE
  /\ Len(ReadsOf(e)) = 3
  /\ ReadRange(ReadsOf(e)[1]) = HeadRange(e.size)
  /\ ReadRange(ReadsOf(e)[2]) = MidRange(e.size)
  /\ ReadRange(ReadsOf(e)[3]) = TailRange(e.size)

\* C6 as stated: for every size above 3*CHUNK_SIZE the head, mid and tail ranges are
\* pairwise disjoint.
C6_PairwiseDisjoint ==
  \A k \in 1..Len(sampled) :
    LET e == sampled[k]
    IN  (SampledFile(e) /\ e.size > 3 * CHUNK_SIZE) =>
          /\ ThreeReads(e)
          /\ Disjoint(ReadRange(ReadsOf(e)[1]), ReadRange(ReadsOf(e)[2]))
          /\ Disjoint(ReadRange(ReadsOf(e)[1]), ReadRange(ReadsOf(e)[3]))
          /\ Disjoint(ReadRange(ReadsOf(e)[2]), ReadRange(ReadsOf(e)[3]))

\* C6 amended: for every size above 3*CHUNK_SIZE the head range is disjoint from the
\* mid and from the tail range; the mid and the tail range are disjoint exactly when
\* size >= 4*CHUNK_SIZE - 1 and share bytes for every smaller size.
C6_HeadDisjointMidTailFromFourChunks ==
  \A k \in 1..Len(sampled) :
    LET e == sampled[k]
    IN  (SampledFile(e) /\ e.size > 3 * CHUNK_SIZE) =>
          /\ ThreeReads(e)
          /\ Disjoint(ReadRange(ReadsOf(e)[1]), ReadRange(ReadsOf(e)[2]))
          /\ Disjoint(ReadRange(ReadsOf(e)[1]), ReadRange(ReadsOf(e)[3]))
          /\ Disjoint(ReadRange(ReadsOf(e)[2]), ReadRange(ReadsOf(e)[3]))
               <=> (e.size >= 4 * CHUNK_SIZE - 1)

C6_Witness ==
  /\ \E k \in 1..Len(sampled) : ThreeReads(sampled[k]) /\ sampled[k].size = 3 * CHUNK_SIZE + 1
  /\ \E k \in 1..Len(sampled) : ThreeReads(sampled[k]) /\ sampled[k].size = 4 * CHUNK_SIZE + 1

(* ----------------------- pairs of sampled files ------------------------ *)

\* both files hold the same byte at every position of every sampled range
SameSampledBytes(n1, n2, size) ==
  \A r \in RangesFor(size) : \A p \in r.lo..(r.hi - 1) : Content(n1, p) = Content(n2, p)

\* C7: two calls on files of the same size with the same bytes in every sampled
\* window return the same hash; so do two calls on one unmodified file.
C7_Deterministic ==
  pc = "done" =>
    \A i, j \in 1..Len(sampled) :
      (/\ i < j
       /\ SampledFile(sampled[i]) /\ SampledFile(sampled[j])
       /\ sampled[i].size = sampled[j].size
       /\ SameSampledBytes(NodeOf(sampled[i]), NodeOf(sampled[j]), sampled[i].size))
      => sampled[i].ret = sampled[j].ret

\* two files that differ although every sampled byte agrees
C7_Witness ==
  /\ pc = "done"
  /\ \E i, j \in 1..Len(sampled) :
       /\ i < j
       /\ SampledFile(sampled[i]) /\ SampledFile(sampled[j])
       /\ sampled[i].size = sampled[j].size
       /\ sampled[i].size > 3 * CHUNK_SIZE
       /\ NodeOf(sampled[i]) # NodeOf(sampled[j])
       /\ SameSampledBytes(NodeOf(sampled[i]), NodeOf(sampled[j]), sampled[i].size)
       /\ sampled[i].ret = sampled[j].ret

\* one file sampled twice
C7_WitnessTwice ==
  /\ pc = "done"
  /\ \E i, j \in 1..Len(sampled) :
       /\ i < j
       /\ sampled[i].path = sampled[j].path
       /\ SampledFile(sampled[i]) /\ sampled[i].size = 20000
       /\ sampled[i].ret = sampled[j].ret

\* n2 is n1 with the byte at position p changed
OneByteChanged(n1, n2, p) ==
  /\ n1.size = n2.size /\ n1.fill = n2.fill /\ n1.step = n2.step
  /\ n1.mpos = -1
  /\ n2.mpos = p /\ p >= 0 /\ p < n2.size
  /\ Content(n1, p) # Content(n2, p)

\* C8: changing one byte at a position that lies in none of the windows sampled for
\* the file's size, the size kept, leaves the hash unchanged.
C8_UnsampledByteInvisible ==
  \A i, j \in 1..Len(sampled) :
    (/\ SampledFile(sampled[i]) /\ SampledFile(sampled[j])
     /\ OneByteChanged(NodeOf(sampled[i]), NodeOf(sampled[j]), NodeOf(sampled[j]).mpos)
     /\ ~InRanges(sampled[i].size, NodeOf(sampled[j]).mpos))
    => sampled[i].ret = sampled[j].ret

\* a byte changed between head and tail of a two-window file, both files sampled
C8_Witness ==
  \E i, j \in 1..Len(sampled) :
    /\ SampledFile(sampled[i]) /\ SampledFile(sampled[j])
    /\ sampled[i].size = 40000
    /\ OneByteChanged(NodeOf(sampled[i]), NodeOf(sampled[j]), NodeOf(sampled[j]).mpos)
    /\ NodeOf(sampled[j]).mpos >= CHUNK_SIZE
    /\ NodeOf(sampled[j]).mpos < 40000 - CHUNK_SIZE
    /\ sampled[i].ret = sampled[j].ret

\* both calls read the same number of windows and window by window the same bytes
IdenticalWindows(e1, e2) ==
  /\ Len(ReadsOf(e1)) = Len(ReadsOf(e2))
  /\ \A w \in 1..Len(ReadsOf(e1)) :
       /\ ReadsOf(e1)[w].n = ReadsOf(e2)[w].n
       /\ \A k \in 0..(ReadsOf(e1)[w].n - 1) :
            Content(NodeOf(e1), ReadsOf(e1)[w].off + k)
              = Content(NodeOf(e2), ReadsOf(e2)[w].off + k)

\* C9: two files whose sampled windows hold identical byte sequences but whose sizes
\* differ never get the same hash.
C9_SizeBinding ==
  pc = "done" =>
    \A i, j \in 1..Len(sampled) :
      (/\ i < j
       /\ SampledFile(sampled[i]) /\ SampledFile(sampled[j])
       /\ sampled[i].size # sampled[j].size
       /\ IdenticalWindows(sampled[i], sampled[j]))
      => sampled[i].ret # sampled[j].ret

C9_Witness ==
  /\ pc = "done"
  /\ \E i, j \in 1..Len(sampled) :
       /\ SampledFile(sampled[i]) /\ SampledFile(sampled[j])
       /\ sampled[i].size = 3 * CHUNK_SIZE + 1
       /\ sampled[j].size = 4 * CHUNK_SIZE + 1
       /\ NodeOf(sampled[i]).fill = 65
       /\ IdenticalWindows(sampled[i], sampled[j])
       /\ sampled[i].ret # sampled[j].ret

(* ===================== properties of the run totals ==================== *)

\* the calls whose outcome the caller has recorded
Recorded == IF cpc = "ret" THEN SubSeq(sampled, 1, Len(sampled) - 1) ELSE sampled

RecordedSuccesses == SelectSeq(Recorded, LAMBDA e : e.ret # ZERO)

RECURSIVE SumOfSizes(_)
SumOfSizes(calls) == IF calls = << >> THEN 0 ELSE Head(calls).size + SumOfSizes(Tail(calls))

\* C10: at every point of a run and at its end, in flat-list and in recursive mode,
\* files_succeeded <= files_total, and total_size_bytes is the sum of the recorded
\* sizes of exactly the files whose sampling was recorded as a success.
C10_TotalsMatchSuccesses ==
  /\ files_succeeded <= files_total
  /\ files_succeeded = Len(RecordedSuccesses)
  /\ total_size_bytes = SumOfSizes(RecordedSuccesses)

\* a recursive run that ended with two successes and two failures
C10_Witness ==
  /\ pc = "done"
  /\ recursive_mode
  /\ files_succeeded = 2
  /\ files_total > files_succeeded + 1
  /\ total_size_bytes = 5
  /\ Len(sampled) = 4

\* a flat-list run that ended with one success and one failure
C10_WitnessFlat ==
  /\ pc = "done"
  /\ ~recursive_mode
  /\ files_succeeded = 1
  /\ files_total = 2
  /\ total_size_bytes = 3
  /\ Len(sampled) = 2

(* ===================== properties of the recursive walk ================ *)

\* the arguments that are paths, in order
PathArgs == SelectSeq(argv, LAMBDA a : ~IsOption(a))

\* path lies below directory dir in the tree (by name, no link followed)
Below(dir, path) ==
  Len(path) > Len(dir) + 1 /\ SubSeq(path, 1, Len(dir) + 1) = dir \o Slash

\* the regular files at or below a root that the extension filter lets through
AcceptedUnder(root) ==
  { p \in DOMAIN TreeFS :
      /\ TreeFS[p].kind = "reg"
      /\ (p = root \/ Below(root, p))
      /\ (ignore_extension \/ is_video_file(p)) }

RECURSIVE CountUnder(_)
CountUnder(roots) ==
  IF roots = << >> THEN 0
  ELSE Cardinality(AcceptedUnder(Head(roots))) + CountUnder(Tail(roots))

\* C11: at the end of a recursive run files_total is the number of accepted regular
\* files under the roots; rejected files and the roots themselves add nothing, so the
\* walk of m/{a.mp4, b.txt, sub/c.mkv} without -i ends with files_total = 2 and
\* files_succeeded = 2.
C11_AttemptedCountsAcceptedFiles ==
  (pc = "done" /\ recursive_mode) =>
    /\ files_total = CountUnder(PathArgs)
    /\ (argv = << optR, pM >> => files_total = 2 /\ files_succeeded = 2)

\* one walk with the extension filter off
OneWalk == recursive_mode /\ ignore_extension /\ Len(PathArgs) = 1
Root == PathArgs[1]

\* root is a directory with no symbolic link anywhere below it
LinkFree(root) ==
  /\ root \in DOMAIN TreeFS /\ TreeFS[root].kind = "dir"
  /\ \A p \in DOMAIN TreeFS : Below(root, p) => TreeFS[p].kind # "lnk"

RegularUnder(root) == { p \in DOMAIN TreeFS : TreeFS[p].kind = "reg" /\ Below(root, p) }

\* how often the sampler was called on a path
Times(path) == Cardinality({ k \in 1..Len(sampled) : sampled[k].path = path })

\* every directory from root down to the file can be opened
Openable(root, path) ==
  \A d \in DOMAIN TreeFS :
    (TreeFS[d].kind = "dir" /\ (d = root \/ Below(root, d)) /\ Below(d, path)) => TreeFS[d].perm

\* C12 as stated: one walk with -i of a link-free tree samples each of its regular
\* files exactly once and nothing else.
C12_EachFileSampledOnce ==
  (pc = "done" /\ OneWalk /\ LinkFree(Root)) =>
    /\ \A p \in RegularUnder(Root) : Times(p) = 1
    /\ Len(sampled) = Cardinality(RegularUnder(Root))

\* C12, amended: one walk with -i of a link-free tree samples exactly once each regular
\* file that lies below directories that can all be opened, whatever the depth, and
\* samples nothing else; the files below a directory that cannot be opened are skipped.
C12_EachReachableFileSampledOnce ==
  (pc = "done" /\ OneWalk /\ LinkFree(Root)) =>
    /\ \A p \in RegularUnder(Root) : Times(p) = (IF Openable(Root, p) THEN 1 ELSE 0)
    /\ Len(sampled) = Cardinality({ p \in RegularUnder(Root) : Openable(Root, p) })

\* the walk of t/ is over: k.ts, three directories down, was sampled once, and q.mp4,
\* below the directory that cannot be opened, was not
C12_Witness ==
  /\ pc = "done" /\ OneWalk /\ Root = pT /\ LinkFree(pT)
  /\ Times(pK) = 1 /\ Times(pG) = 1 /\ Times(pQ) = 0
  /\ Len(sampled) = 5

\* a path without its trailing slashes
RECURSIVE StripSlash(_)
StripSlash(path) ==
  IF TrailingSlash(path) THEN StripSlash(SubSeq(path, 1, Len(path) - 1)) ELSE path

\* the path, written with or without a trailing slash, names a symbolic link
NamesLink(path) ==
  LET to == Lookup(StripSlash(path), FALSE, 8)
  IN  to # << >> /\ FSNode(to).kind = "lnk"

\* the paths the sampler has been called on during the walk, the running call included
WalkSampled ==
  { sampled[k].path : k \in 1..Len(sampled) } \cup
  (IF cpc \in { "idle", "ret" } THEN { } ELSE { filename })

\* C13 as stated: the walker never opens a directory through a path that names a
\* symbolic link, be it an entry or a root, and never samples (hence never counts) a
\* path that names one.
C13_NeverFollowsLinks ==
  recursive_mode =>
    /\ \A k \in 1..Len(stack) : ~NamesLink(stack[k].path)
    /\ \A p \in WalkSampled : ~NamesLink(p)

\* C13, amended: a path whose last component is a symbolic link, be it a directory
\* entry or a root argument, is never opened as a directory or sampled by the walk; only
\* a root argument written with a trailing slash is resolved by lstat to the directory
\* its link points to and walked (as are links in the parent components of a root).
C13_FollowsOnlySlashedRoot ==
  recursive_mode =>
    /\ \A k \in 1..Len(stack) :
         NamesLink(stack[k].path) =>
           /\ k = 1
           /\ TrailingSlash(stack[k].path)
           /\ stack[k].path = argv[argi]
    /\ \A p \in WalkSampled : ~NamesLink(p)

\* the walk of r/lnk/ is over: the five regular files of r were sampled through the
\* link, the links lnk and s.mp4 met as entries were not
C13_Witness ==
  /\ pc = "done" /\ recursive_mode /\ ignore_extension
  /\ PathArgs = << pLnkSlash >>
  /\ Len(sampled) = 5
  /\ Times(pLnkSlash \o Slash \o << "s", ".", "m", "p", "4" >>) = 0
  /\ Times(pLnkSlash \o Slash \o nA) = 1

(* ========================= properties of the batch ===================== *)

\* the extension filter lets the argument through (decided on the name as given)
AcceptedArg(a) == ignore_extension \/ is_video_file(a)

SampledPaths == [k \in 1..Len(sampled) |-> sampled[k].path]

PathErrors == SelectSeq(out, LAMBDA ev : ev.kind = "path_error")

\* how many of the roots given reach the file through directories that can be opened
Cover(path) ==
  Cardinality({ i \in 1..Len(PathArgs) :
                  /\ PathArgs[i] \in DOMAIN TreeFS
                  /\ TreeFS[PathArgs[i]].kind \in { "dir", "reg" }
                  /\ (path = PathArgs[i] \/ Below(PathArgs[i], path))
                  /\ Openable(PathArgs[i], path) })

\* a flat run is over with every argument handled once, in order
FlatRunComplete ==
  (pc = "done" /\ ~recursive_mode) =>
    /\ files_processed = Len(PathArgs)
    /\ SampledPaths = SelectSeq(PathArgs, LAMBDA a : AcceptedArg(a) /\ Resolve(a, 8) # << >>)
    /\ [k \in 1..Len(PathErrors) |-> PathErrors[k].path]
         = SelectSeq(PathArgs, LAMBDA a : AcceptedArg(a) /\ Resolve(a, 8) = << >>)

\* a recursive run is over with every root walked: each accepted file was sampled once
\* for every root that reaches it, whether the sampling failed or not
WalkRunComplete ==
  (pc = "done" /\ recursive_mode) =>
    \A p \in DOMAIN TreeFS :
      (TreeFS[p].kind = "reg" /\ AcceptedArg(p)) => Times(p) = Cover(p)

\* a path whose sampling failed was passed to the sampler again later in the run
SampledAgain ==
  \E i, j \in 1..Len(sampled) :
    i < j /\ ~sampled[i].ok /\ sampled[j].path = sampled[i].path

\* C14 as stated: a failure on one file (path not found, open or fstat failed) does not
\* stop the batch: every later path argument is still handled, in order, the run
\* reaches its summary, and no file whose sampling failed is sampled a second time in
\* the run.
C14_NoFailedFileSampledAgain ==
  /\ [](FlatRunComplete /\ WalkRunComplete /\ ~SampledAgain)
  /\ <>(pc \in { "done", "usage" })

\* C14, amended: a failure on one file does not stop the batch: every later path
\* argument is still handled, in order; the run reaches its summary; and a failed file
\* is sampled once for each argument that names or reaches it, never a second time for
\* the same argument.
C14_BatchContinues ==
  /\ [](FlatRunComplete /\ WalkRunComplete)
  /\ <>(pc \in { "done", "usage" })

\* the flat run over x.mp4 (open fails), f.mp4, e.avi (fstat fails), k.ts is over: four
\* calls in order, the second and fourth recorded
C14_Witness ==
  /\ pc = "done"
  /\ PathArgs = << pX, pF, pE, pK >>
  /\ Len(sampled) = 4
  /\ ~sampled[1].ok /\ sampled[2].ok /\ ~sampled[3].ok /\ sampled[4].ok
  /\ files_succeeded = 2

(* ======================== properties of the handle ====================== *)

\* C15: file handles are scoped to one sampling call: outside a call, and on each of
\* its exits (open failed, fstat failed, normal return), no descriptor is open; inside
\* a call the one open descriptor is the call's own, so at most one sampled file is
\* open at a time and a file is closed before the next one is opened.
C15_HandleScopedToCall ==
  /\ Len(fds) <= 1
  /\ cpc \in { "idle", "open", "ret" } => fds = << >>
  /\ fds # << >> => fds = << fd >>

\* the call on e.avi, whose fstat fails after the open succeeded, has returned, after
\* an earlier call of the run that opened a file and closed it
C15_Witness ==
  /\ cpc = "ret"
  /\ filename = pE
  /\ Len(sampled) >= 2
  /\ ~sampled[Len(sampled)].ok
  /\ \E k \in 1..(Len(sampled) - 1) : sampled[k].ok
  /\ fds = << >>

(* ==================== properties of the extension filter ================ *)

SetMax(S) == CHOOSE x \in S : \A y \in S : y <= x

\* the text after the last '/' of a path
FinalComponent(path) ==
  LET slashes == { k \in 1..Len(path) : path[k] = "/" }
  IN  IF slashes = { } THEN path ELSE SubSeq(path, SetMax(slashes) + 1, Len(path))

\* the twelve extensions of the specification, without the dot
AllowedExtensions ==
  { << "m", "p", "4" >>, << "m", "k", "v" >>, << "a", "v", "i" >>, << "m", "o", "v" >>,
    << "w", "m", "v" >>, << "f", "l", "v" >>, << "w", "e", "b", "m" >>,
    << "m", "4", "v" >>, << "m", "p", "g" >>, << "m", "p", "e", "g" >>, << "t", "s" >>,
    << "m", "2", "t", "s" >> }

\* character c is d, or the capital of the letter d
Caseless(c, d) == c = d \/ \E k \in 1..26 : UpperCase[k] = c /\ LowerCase[k] = d

\* the final component has a '.', and what follows its last '.' is an allowed extension
\* in any mix of cases
HasVideoExtension(path) ==
  LET comp == FinalComponent(path)
      dots == { k \in 1..Len(comp) : comp[k] = "." }
  IN  /\ dots # { }
      /\ LET after == SubSeq(comp, SetMax(dots) + 1, Len(comp))
         IN  \E e \in AllowedExtensions :
               Len(e) = Len(after) /\ \A k \in 1..Len(e) : Caseless(after[k], e[k])

\* C16: is_video_file(path) is true if and only if the final path component contains a
\* '.' and the lower-cased text after its last '.' is exactly one of the twelve
\* extensions; a '.' in a directory component, a prefix of an extension, or an extension
\* followed by more characters do not make it true.
C16_ExtensionMatch ==
  pc = "is_video_done" => (isvid <=> HasVideoExtension(filename))

\* accepted: a capitalised extension after a stem with a dot, below a directory whose
\* name ends in an extension
C16_Witness ==
  /\ pc = "is_video_done"
  /\ filename = << "d", ".", "m", "p", "4", "/", "v", ".", "m", "k", "v", ".", "W", "E", "B", "M" >>
  /\ isvid

(* ====================== properties of the failure causes ================ *)

Totals == << files_succeeded, total_size_bytes >>

\* the flat loop is at an argument that passed the extension filter
AtAcceptedArg == FlatArg /\ AcceptedArg(argv[argi])

\* the step of a flat run on an accepted argument that does not resolve: it is reported
\* as a path error, no sampling call is made, nothing is opened, the totals stay
PathNotFoundStep ==
  (AtAcceptedArg /\ Resolve(argv[argi], 8) = << >>) =>
    /\ out' = Append(out, OutEvent("path_error", argv[argi], ZERO, 0))
    /\ UNCHANGED << sampled, fds, cpc, Totals >>

\* the step on an accepted argument that resolves: the sampling call is made on it, and
\* no path error is reported
ResolvedStep ==
  (AtAcceptedArg /\ Resolve(argv[argi], 8) # << >>) =>
    /\ cpc' = "open" /\ filename' = argv[argi]
    /\ UNCHANGED << out, Totals >>

\* the call ends as a failure exactly when the open or the fstat failed
UnreadableStep ==
  (pc = "flat_wait" /\ cpc # "ret" /\ cpc' = "ret") =>
    LET to   == Resolve(filename, 8)
        call == sampled'[Len(sampled')]
    IN  /\ Len(sampled') = Len(sampled) + 1
        /\ call.path = filename
        /\ call.ok <=> (FSNode(to).perm /\ FSNode(to).statok)
        /\ ~call.ok => ret' = ZERO
        /\ UNCHANGED << out, Totals >>

\* the caller's step after a failed call: nothing is reported, the totals stay
FailedRecordStep ==
  (pc = "flat_wait" /\ cpc = "ret" /\ ~sampled[Len(sampled)].ok) =>
    UNCHANGED << out, Totals >>

Reads(events) == SelectSeq(events, LAMBDA ev : ev.op = "read")

\* the bytes of file content the reads returned
RECURSIVE BytesReturned(_)
BytesReturned(events) ==
  IF events = << >> THEN 0
  ELSE (IF Head(events).op = "read" THEN Max(0, Head(events).n) ELSE 0)
         + BytesReturned(Tail(events))

ConstantIO(events) ==
  /\ Len(Reads(events)) <= 3
  /\ BytesReturned(events) <= 3 * CHUNK_SIZE

\* C18: whatever the size of the file, one call of calculate_video_hash issues at most
\* three reads and reads at most 3*CHUNK_SIZE bytes of content in all; this holds of
\* the call in progress and of every call that has returned.
C18_ConstantIO ==
  /\ ConstantIO(io)
  /\ \A k \in 1..Len(sampled) : ConstantIO(sampled[k].io)

\* the call on the file of 4*CHUNK_SIZE bytes has returned after three full reads
C18_Witness ==
  /\ cpc = "ret"
  /\ sampled # << >>
  /\ sampled[Len(sampled)].size = 4 * CHUNK_SIZE
  /\ Len(Reads(sampled[Len(sampled)].io)) = 3
  /\ BytesReturned(sampled[Len(sampled)].io) = 3 * CHUNK_SIZE

(* ===================== properties of the recorded outcome =============== *)

\* the caller is about to record a call in which open and fstat succeeded
ReadableCallReturned ==
  pc \in { "flat_wait", "rec_wait" } /\ cpc = "ret" /\ sampled[Len(sampled)].ok

\* C19: sampling fails only when the open or the fstat fails: every file opened and
\* stat'ed successfully, whatever its size, content or hash value, is recorded as a
\* success: files_succeeded goes up by one, its size is added to total_size_bytes, and
\* its hash is reported.
C19_ReadableFileRecorded ==
  [][ReadableCallReturned =>
       /\ files_succeeded' = files_succeeded + 1
       /\ total_size_bytes' = total_size_bytes + sz
       /\ out' = Append(out, OutEvent("hash", filename, ret, sz))]_vars

(* ====================== properties of the mixer state =================== *)

\* the fingerprint of a file of that size and content, folded from the offset basis
\* with nothing before it
FingerprintAlone(node, size) ==
  LET seeded == fnv1a_hash(FNV_OFFSET_BASIS, SizeBytes(ToU64(size)), 8)
      head   == FoldNext(seeded, node, 0, Min(size, CHUNK_SIZE))
      mid    == IF size > 3 * CHUNK_SIZE
                THEN FoldNext(head, node, size \div 2, CHUNK_SIZE) ELSE head
  IN  IF size > CHUNK_SIZE THEN FoldNext(mid, node, size - CHUNK_SIZE, CHUNK_SIZE) ELSE mid

\* C20: the mixer state is not shared across files: each file's computation starts from
\* the offset basis, so the hash a call returns for a file is the hash of that file
\* alone, whatever calls came before it in the run and however they ended.
C20_NoStateAcrossFiles ==
  \A k \in 1..Len(sampled) :
    SampledFile(sampled[k]) =>
      sampled[k].ret = FingerprintAlone(NodeOf(sampled[k]), sampled[k].size)

\* k.ts has been hashed as the fourth file of a run, after a file that could not be
\* opened, a file that was hashed and a file that could not be stat'ed
C20_Witness ==
  /\ PathArgs = << pX, pF, pE, pK >>
  /\ Len(sampled) = 4
  /\ sampled[4].path = pK /\ sampled[4].ok
  /\ sampled[4].ret = FingerprintAlone(FSNode(pK), FSNode(pK).size)
  /\ sampled[4].ret # sampled[2].ret

(* ==================== properties of the attempted count ================= *)

\* the argument is sampled in a flat run: it passes the filter and resolves
Sampleable(a) == AcceptedArg(a) /\ Resolve(a, 8) # << >>

\* a flat run is over: every path argument is counted in files_total, the rejected and
\* the unresolvable ones too, and those were not sampled and are not among the successes
FlatCountsEveryArgument ==
  (pc = "done" /\ ~recursive_mode) =>
    /\ files_total = Len(PathArgs)
    /\ \A i \in 1..Len(PathArgs) :
         ~Sampleable(PathArgs[i]) => \A k \in 1..Len(sampled) : sampled[k].path # PathArgs[i]
    /\ files_succeeded <= Len(SelectSeq(PathArgs, Sampleable))

\* a recursive run is over: files_total counts the files handed to the sampler and
\* nothing else, so a rejected file has added nothing to it
WalkCountsNoRejectedFile ==
  (pc = "done" /\ recursive_mode) => files_total = Len(sampled)

\* C21: in flat mode every non-option path argument counts in files_total, including a
\* file the extension filter rejects and a path that does not resolve; such a path is
\* never sampled and never counts in files_succeeded; in recursive mode a rejected file
\* changes no total.
C21_RejectedCountedInFlatModeOnly ==
  FlatCountsEveryArgument /\ WalkCountsNoRejectedFile

(* ===================== properties of the totals' steps ================== *)

\* the caller is about to record the outcome of the call that returned
RecordStep == pc \in { "flat_wait", "rec_wait" } /\ cpc = "ret"

NeverDecrease ==
  /\ files_total' >= files_total
  /\ files_succeeded' >= files_succeeded
  /\ total_size_bytes' >= total_size_bytes

\* what recording does to files_succeeded and total_size_bytes: one more and the file's
\* size more when the call returned a hash, nothing when it returned 0
RecordsOutcome ==
  IF Succeeded(ret)
  THEN files_succeeded' = files_succeeded + 1 /\ total_size_bytes' = total_size_bytes + sz
  ELSE UNCHANGED Totals

\* C22 as stated: the totals never decrease, and recording one file outcome increases
\* files_total by exactly 1 and, on success only, files_succeeded by exactly 1 and
\* total_size_bytes by exactly the file's size; a failure leaves these two unchanged.
C22_RecordingAddsOneAttempt ==
  [][/\ NeverDecrease
     /\ RecordStep => (files_total' = files_total + 1 /\ RecordsOutcome)]_vars

\* C22, amended: the totals never decrease; recording one file outcome increases
\* files_total by exactly 1 in recursive mode and leaves it unchanged in flat mode,
\* where the first pass has counted every path argument before any file is sampled;
\* in both modes it increases files_succeeded by 1 and total_size_bytes by the file's
\* size when the call returned a non-zero hash, and leaves them unchanged otherwise; no
\* other step changes a total.
C22_TotalsAppendOnly ==
  [][/\ NeverDecrease
     /\ RecordStep =>
          /\ files_total' = files_total + (IF pc = "rec_wait" THEN 1 ELSE 0)
          /\ RecordsOutcome
     /\ pc = "parse" => (files_total' = Len(PathArgs) /\ UNCHANGED Totals)
     /\ (~RecordStep /\ pc # "parse") => UNCHANGED << files_total, Totals >>]_vars

\* the recursive run over t and r is over: files were recorded as hashed and as
\* failed, and every one of them, and each of the two roots, is in files_total
C22_Witness ==
  /\ pc = "done"
  /\ argv = << optR, pT, pR >>
  /\ \E k \in 1..Len(sampled) : ~Succeeded(sampled[k].ret)
  /\ files_succeeded = Len(SelectSeq(sampled, LAMBDA e : Succeeded(e.ret)))
  /\ files_succeeded > 0
  /\ files_total = 2 + Len(sampled)
  /\ total_size_bytes = SumOfSizes(SelectSeq(sampled, LAMBDA e : Succeeded(e.ret)))


(* ===================== skipped entries and the walk ==================== *)

\* what one process_path_recursive call on path hands to the sampler, as the code's
\* recursion gives it: nothing when lstat or opendir fails
RECURSIVE Visit(_, _)
Visit(path, depth) ==
  IF depth = 0 \/ Lstat(path) = << >> THEN { }
  ELSE IF IsDir(path)
       THEN IF ~FSNode(Lstat(path)).perm THEN { }
            ELSE LET entries == FSNode(Lstat(path)).entries
                 IN  UNION { Visit(path \o Slash \o entries[k], depth - 1) :
                               k \in { j \in 1..Len(entries) :
                                         entries[j] \notin { Dot, DotDot } } }
       ELSE IF IsReg(path) /\ Accepted(path) THEN { path } ELSE { }

\* deeper than any tree of the fixture
MaxDepth == 6

\* the calls a skipped path makes: lstat fails on it, or it is a directory that opendir
\* cannot open
Skipped(path) == Lstat(path) = << >> \/ (IsDir(path) /\ ~FSNode(Lstat(path)).perm)

\* C23: a directory that cannot be opened, or a path on which lstat fails, is skipped
\* and the walk goes on: at the end of a recursive run every accepted regular file that
\* the walk of any root reaches has been sampled, the siblings after a skipped entry and
\* the roots after a skipped root included.
C23_SkipDoesNotAbortWalk ==
  (pc = "done" /\ recursive_mode) =>
    \A i \in 1..Len(PathArgs) :
      \A p \in Visit(PathArgs[i], MaxDepth) : Times(p) >= 1

\* the walk of gone.mp4 and t/ is over: lstat failed on the root gone.mp4 and on the
\* entry n, d could not be opened, and the files of u/, after them in t/, and f.mp4
\* were sampled all the same
C23_Witness ==
  /\ pc = "done" /\ argv = << optR, pGone, pT >>
  /\ Skipped(pGone) /\ Skipped(pD) /\ Skipped(pT \o Slash \o << "n" >>)
  /\ Visit(pT, MaxDepth) = { pF, pU \o Slash \o << "h", ".", "m", "k", "v" >>, pZ, pK }
  /\ Times(pF) = 1 /\ Times(pZ) = 1 /\ Times(pK) = 1 /\ Times(pQ) = 0

(* ========================= the walk terminates ========================= *)

\* the directories of the nested process_path_recursive calls, by what they resolve to
OpenDirs == [k \in 1..Len(stack) |-> Resolve(stack[k].path, 8)]

\* no directory is open twice in the nested calls
NoDirectoryReentered ==
  \A i, j \in 1..Len(stack) : OpenDirs[i] = OpenDirs[j] => i = j

\* C24: the recursive walk terminates, also over a tree with a symbolic link to an
\* ancestor directory, and tracks no visited set: every recursive run reaches its
\* summary, and at no time is a directory open twice in the nested calls, so the depth
\* of the recursion is bounded by the depth of the tree.
C24_WalkTerminates ==
  /\ [](NoDirectoryReentered /\ Len(stack) <= MaxDepth)
  /\ (recursive_mode ~> (pc = "done"))

\* the walk of r/, which holds lnk -> r, is over: the link was passed by and every file
\* of r/ was sampled once
C24_Witness ==
  /\ pc = "done" /\ argv = << optI, optR, pR >>
  /\ FSNode(pLnk).kind = "lnk" /\ Resolve(pLnk, 8) = pR
  /\ Times(pA) = 1 /\ Times(pC) = 1
  /\ \A k \in 1..Len(sampled) : Below(pR, sampled[k].path) /\ ~Below(pLnk, sampled[k].path)


(* ================= a file resized while it is sampled ================== *)

\* the lengths another process gives the file: grown, shortened, and cut below one
\* window
NewLengths(size) == { size + 1000, size - 1000, 100 }

\* another process changes the length of the open file once, after fstat and before
\* the tail seek of a call that will read a tail window
resize ==
  /\ cpc \in { "seed", "read_head", "fold_head", "read_mid", "fold_mid", "read_tail" }
  /\ FSNode(fd).kind = "reg" /\ NeedTail(file_size)
  /\ disk = [p \in RegPaths |-> FSNode(p).size]
  /\ \E len \in NewLengths(file_size) : disk' = [disk EXCEPT ![fd] = len]
  /\ UNCHANGED << mainVars, samplerVars, sampled, fds, isvid >>

ResizeArgLists ==
  { << >>, << optR, pR >>, << pB, pGone >>, << LibPath("b", 20000) >>,
    << LibPath("b", CHUNK_SIZE + 1) >>, << optI, LibPath("b", 4 * CHUNK_SIZE) >> }

InitResize == InitWith(ResizeArgLists)

NextResize == Next \/ resize

SpecResize == InitResize /\ [][NextResize]_vars

\* the step that seeks to the tail and reads
TailRead == cpc = "read_tail" /\ cpc' = "fold_tail"

\* the size recorded by fstat is the one handed to the caller and folded first
RecordedSizeKept ==
  cpc \in { "read_head", "fold_head", "read_mid", "fold_mid", "read_tail", "fold_tail" } =>
    /\ sz = file_size
    /\ io[1] = IoEvent("fold_size", 0, 8)

\* C25 as stated: the tail window starts at offset size - CHUNK_SIZE from the start of
\* the file, size being the value fstat recorded, which is folded and reported, also
\* when another process changes the length of the file between fstat and the tail read.
C25_TailAtRecordedSize ==
  [][TailRead => (RecordedSizeKept /\ Last(io').off = file_size - CHUNK_SIZE)]_vars

\* C25, amended: the tail window starts CHUNK_SIZE bytes before the end of the file as
\* it is when the tail seek is made; that is offset size - CHUNK_SIZE, size being the
\* value fstat recorded, when no other process has changed the length since fstat.
\* When the file has become shorter than CHUNK_SIZE the seek fails and the tail read
\* goes on from where the previous read ended. The size folded and reported is the
\* recorded one in every case.
C25_TailBeforeCurrentEnd ==
  [][TailRead =>
       /\ RecordedSizeKept
       /\ Last(io').op = "read"
       /\ Last(io').off = (IF disk[fd] >= CHUNK_SIZE THEN disk[fd] - CHUNK_SIZE ELSE fpos)
       /\ (disk[fd] = file_size => Last(io').off = file_size - CHUNK_SIZE)]_vars

\* the 20000-byte file was lengthened to 21000 bytes after fstat: the tail read was
\* made at 21000 - CHUNK_SIZE, and the size reported is 20000
C25_Witness ==
  /\ cpc = "fold_tail" /\ filename = LibPath("b", 20000)
  /\ file_size = 20000 /\ sz = 20000 /\ disk[fd] = 21000
  /\ Last(io) = IoEvent("read", 21000 - CHUNK_SIZE, CHUNK_SIZE)


(* ===================== counting before sampling ======================== *)

\* the first call of calculate_video_hash of the run has been made
HashingBegun == cpc # "idle" \/ sampled # << >>

\* C26: in recursive mode the files of all subdirectories are counted first and only
\* then is the first file hashed: from the first call of calculate_video_hash on, the
\* total file count is complete and no longer changes.
C26_CountCompleteBeforeHashing ==
  [][(recursive_mode /\ HashingBegun) => files_total' = files_total]_vars


(* ==================== v0.18, the flat-list program ===================== *)

\* calculate_video_hash of v0.18: the value returned and the size stored through
\* out_size. The text of the function is that of v0.20 with comments added, so the
\* steps are the same operators.
v18_calculate_video_hash(path) ==
  LET f == Resolve(path, 8)
  IN  IF f = << >> \/ ~FSNode(f).perm THEN [ret |-> ZERO, size |-> 0]
      ELSE IF ~FSNode(f).statok THEN [ret |-> ZERO, size |-> 0]
      ELSE LET size == StSize(f)
               n1   == ReadCount(f, 0)
               p1   == Max(n1, 0)
               o2   == MidOffset(size)
               n2   == ReadCount(f, o2)
               p2   == IF NeedMid(size) THEN (IF n2 > 0 THEN o2 + n2 ELSE o2) ELSE p1
               o3   == TailOffset(StSize(f), p2)
               n3   == ReadCount(f, o3)
               head == FoldWindow(SeedHash(size),
                                  IF n1 > 0 THEN ReadInto(<< >>, f, 0, n1) ELSE << >>, n1)
               mid(h) == IF NeedMid(size)
                         THEN FoldWindow(h, IF n2 > 0 THEN ReadInto(<< >>, f, o2, n2)
                                            ELSE << >>, n2)
                         ELSE h
               tail(h) == IF NeedTail(size)
                          THEN FoldWindow(h, IF n3 > 0 THEN ReadInto(<< >>, f, o3, n3)
                                             ELSE << >>, n3)
                          ELSE h
           IN  [ret |-> tail(mid(head)), size |-> size]

\* v0.18 main, second pass, from argument i on: the successes so far and the hashes
\* reported so far
RECURSIVE v18_second_pass(_, _, _, _, _)
v18_second_pass(args, i, ignore, succeeded, hashes) ==
  IF i > Len(args) THEN [files_succeeded |-> succeeded, hashes |-> hashes]
  ELSE IF args[i] = optI \/ (Len(args[i]) > 0 /\ args[i][1] = "-")
       THEN v18_second_pass(args, i + 1, ignore, succeeded, hashes)
       ELSE IF ~ignore /\ ~is_video_file(args[i])
            THEN v18_second_pass(args, i + 1, ignore, succeeded, hashes)
            ELSE IF ~realpath(args[i])
                 THEN v18_second_pass(args, i + 1, ignore, succeeded, hashes)
                 ELSE LET h == CHOOSE r \in { v18_calculate_video_hash(args[i]).ret } : TRUE
                      IN  IF h # ZERO
                          THEN v18_second_pass(args, i + 1, ignore, succeeded + 1,
                                               Append(hashes, << args[i], h >>))
                          ELSE v18_second_pass(args, i + 1, ignore, succeeded, hashes)

\* v0.18 main: the first pass counts the arguments that do not start with '-'; with
\* none the usage text is printed and nothing else is done
v18_main(args) ==
  LET total  == Len(SelectSeq(args, LAMBDA a : ~(Len(a) > 0 /\ a[1] = "-")))
      ignore == \E k \in 1..Len(args) : args[k] = optI
  IN  IF Len(args) = 0 \/ total = 0
      THEN [usage |-> TRUE, files_total |-> total, files_succeeded |-> 0, hashes |-> << >>]
      ELSE [usage |-> FALSE, files_total |-> total] @@
           v18_second_pass(args, 1, ignore, 0, << >>)

\* the hashes v0.20 has reported, in order
HashesReported ==
  LET hs == SelectSeq(out, LAMBDA e : e.kind = "hash")
  IN  [k \in 1..Len(hs) |-> << hs[k].path, hs[k].hash >>]

\* C27: v0.18 and v0.20 in flat-list mode, on the same argument list and the same
\* files, report the same hash for every file and end with the same files_succeeded and
\* files_total; and the one prints the usage text exactly when the other does.
C27_SameFingerprintsAsV018 ==
  /\ (pc = "done" /\ ~recursive_mode) =>
        LET old == CHOOSE r \in { v18_main(argv) } : TRUE
        IN  /\ ~old.usage
            /\ HashesReported = old.hashes
            /\ files_succeeded = old.files_succeeded
            /\ files_total = old.files_total
  /\ (pc = "usage" /\ \A k \in 1..Len(argv) : argv[k] # optR) => v18_main(argv).usage

\* the flat run over the file of four chunks is over: its three windows were read and
\* the one hash reported is the hash v0.18 returns for it
C27_Witness ==
  /\ pc = "done" /\ ~recursive_mode
  /\ argv = << LibPath("b", 4 * CHUNK_SIZE) >>
  /\ Len(ReadsOf(Last(sampled))) = 3
  /\ HashesReported = << << argv[1], v18_calculate_video_hash(argv[1]).ret >> >>
  /\ files_succeeded = 1 /\ files_total = 1

====
